---- MODULE Spec2Model ----
(***************************************************************************)
(* Model of baza.py: the table abstraction (Tabela and its five            *)
(* subclasses), the bulk operations over the table list, and the module    *)
(* level script that opens the connection, rebuilds the database, reads    *)
(* the five tables and closes the connection.                              *)
(*                                                                         *)
(* The storage engine (SQLite through Python's sqlite3 module, default     *)
(* isolation level) is modelled by the operators of the section "engine":  *)
(* DDL statements run in autocommit, an INSERT or DELETE opens a           *)
(* transaction implicitly, "with conn:" commits on a normal exit and       *)
(* rolls back when an exception leaves the block.                          *)
(*                                                                         *)
(* Two specifications:                                                     *)
(*   Spec        one run of the script (lines 255-265);                    *)
(*   SpecTabela  a caller driving the methods of one Tabela object in any  *)
(*               order.                                                    *)
(***************************************************************************)
EXTENDS Integers, Sequences, FiniteSets, TLC

VARIABLES
    conn,           \* "none", "open" or "closed": the connection object
    pc,             \* position of the script / of the caller
    baza,           \* the store as the connection sees it
    disk,           \* the committed store
    v_transakciji,  \* conn.in_transaction
    i,              \* index into the table list (the loops over tabele)
    stolpci,        \* header of the open source file (uvozi, line 49)
    prebrano,       \* per table: the records read from its source so far
    podatki,        \* dodaj_vrstico: the filtered mapping bound to the statement
    poizvedba,      \* dodaj_vrstico: the statement built by dodajanje
    napaka,         \* the exception raised, "" when none
    dnevnik,        \* the operations issued, in order
    vstavljeno,     \* per table: rows inserted by completed dodaj_vrstico calls
    korak,          \* SpecTabela: position in the drop-create-drop-create sequence
    prej            \* rows present when the script (Spec) or the current call
                    \* (SpecTabela) began; -1: the table did not exist

vars == <<conn, pc, baza, disk, v_transakciji, i, stolpci, prebrano, podatki,
          poizvedba, napaka, dnevnik, vstavljeno, korak, prej>>

\* Bound: a record is read only while the store holds fewer rows than this and
\* the table's AUTOINCREMENT counter is below it.
MaxVrstic == 2

----------------------------------------------------------------------------
(* Optional values and ordered mappings (Python dict)                      *)

None == <<>>
Some(v) == <<v>>

\* A dict is a sequence of <<key, value>> pairs with distinct keys, in
\* insertion order.
Keys(d) == [x \in 1..Len(d) |-> d[x][1]]

HasKey(d, k) == \E x \in 1..Len(d) : d[x][1] = k

Get(d, k) == d[CHOOSE x \in 1..Len(d) : d[x][1] = k][2]

\* d[k] = v: an existing key keeps its position, a new key is appended.
Put(d, k, v) ==
    IF HasKey(d, k)
    THEN [x \in 1..Len(d) |-> IF d[x][1] = k THEN <<k, v>> ELSE d[x]]
    ELSE Append(d, <<k, v>>)

Min(a, b) == IF a < b THEN a ELSE b

RECURSIVE DictOfPairs(_, _, _)
\* {k: f(v) for k, v in zip(ks, vs)} for the first n pairs.
DictOfPairs(ks, vs, n) ==
    IF n = 0 THEN <<>>
    ELSE Put(DictOfPairs(ks, vs, n - 1), ks[n],
             IF vs[n] = "" THEN None ELSE Some(vs[n]))

----------------------------------------------------------------------------
(* The tables: names, source files and DDL                                 *)

\* Faulty variant: the list built in another order.
pripravi_tabele_zamenjano == <<"stranka", "zaloga", "oblacilo", "kosarica", "narocilo">>

\* pripravi_tabele: the table objects, in list order.
pripravi_tabele == <<"stranka", "oblacilo", "zaloga", "kosarica", "narocilo">>

Imena == {pripravi_tabele[x] : x \in 1..Len(pripravi_tabele)}

\* The columns each CREATE TABLE declares, in order.
Stranka_ustvari ==
    <<"id", "first_name", "last_name", "email", "gender", "ip_address">>
Oblacila_ustvari ==
    <<"clothing_type", "size", "color", "brand", "material", "price", "season", "ID">>
Zaloga_ustvari ==
    <<"id_dobave", "id_izdelka", "price", "quantity", "date_of_launch">>
Kosarica_ustvari == <<"cart_id", "product_id", "discount">>
Narocilo_ustvari == <<"id_kosarice", "ID", "status", "status_2">>

Shema(t) ==
    CASE t = "stranka"  -> Stranka_ustvari
      [] t = "oblacilo" -> Oblacila_ustvari
      [] t = "zaloga"   -> Zaloga_ustvari
      [] t = "kosarica" -> Kosarica_ustvari
      [] t = "narocilo" -> Narocilo_ustvari

Range(s) == {s[x] : x \in 1..Len(s)}

\* Columns declared NOT NULL.
NotNull(t) ==
    CASE t = "stranka"  -> {"first_name", "last_name", "email", "gender", "ip_address"}
      [] t = "oblacilo" -> {"clothing_type", "size", "color", "brand", "material",
                            "price", "season"}
      [] t = "zaloga"   -> {"price", "quantity"}
      [] t = "kosarica" -> {}
      [] t = "narocilo" -> {}

\* INTEGER PRIMARY KEY AUTOINCREMENT column (assigned by the engine), if any.
AutoKljuc(t) ==
    CASE t = "stranka"  -> {"id"}
      [] t = "kosarica" -> {"cart_id"}
      [] OTHER          -> {}

\* TEXT PRIMARY KEY column (unique, NULL allowed), if any.
TextKljuc(t) ==
    CASE t = "oblacilo" -> {"ID"}
      [] t = "zaloga"   -> {"id_dobave"}
      [] OTHER          -> {}

\* Tables a REFERENCES clause of t names (the store does not have to hold them).
Reference(t) ==
    CASE t = "zaloga"   -> {"oblacila"}
      [] t = "kosarica" -> {"oblacila"}
      [] t = "narocilo" -> {"kosarica", "stranka"}
      [] OTHER          -> {}

----------------------------------------------------------------------------
(* The engine: SQLite behind conn.execute                                  *)

BrezNapake == ""

Ni == [obstaja |-> FALSE, vrstice |-> <<>>, seq |-> 0]
Prazna == [obstaja |-> TRUE, vrstice |-> <<>>, seq |-> 0]

\* DROP TABLE IF EXISTS t
DropTableIfExists(db, t) ==
    [baza |-> [db EXCEPT ![t] = Ni], napaka |-> BrezNapake]

\* CREATE TABLE t (...): fails only when t exists; foreign keys are not
\* enforced (the pragma is never set) and a REFERENCES target is not looked up.
CreateTable(db, t) ==
    IF db[t].obstaja
    THEN [baza |-> db, napaka |-> "OperationalError"]
    ELSE [baza |-> [db EXCEPT ![t] = Prazna], napaka |-> BrezNapake]

\* DELETE FROM t: the AUTOINCREMENT high-water mark (sqlite_sequence) stays.
DeleteFrom(db, t) ==
    IF ~db[t].obstaja
    THEN [baza |-> db, napaka |-> "OperationalError"]
    ELSE [baza |-> [db EXCEPT ![t].vrstice = <<>>], napaka |-> BrezNapake]

MaxRowid(rows) ==
    IF rows = <<>> THEN 0
    ELSE CHOOSE m \in {rows[x].rowid : x \in 1..Len(rows)} :
             \A x \in 1..Len(rows) : rows[x].rowid <= m

Max(a, b) == IF a > b THEN a ELSE b

\* The name a placeholder refers to: ":name" binds the parameter "name".
ParamName(p) == p[2]

\* INSERT INTO t (cols) VALUES (placeholders) with the named bindings.
Insert(db, stmt, vezava) ==
    LET t == stmt.tabela
        cols == stmt.stolpci
        fail(e) == [baza |-> db, napaka |-> e, rowid |-> 0]
    IN  IF cols = <<>> \/ Len(stmt.vrednosti) # Len(cols)
        THEN fail("OperationalError")
        ELSE IF ~db[t].obstaja \/ ~(Range(cols) \subseteq Range(Shema(t)))
        THEN fail("OperationalError")
        ELSE IF \E x \in 1..Len(cols) : ~HasKey(vezava, ParamName(stmt.vrednosti[x]))
        THEN fail("ProgrammingError")
        ELSE
          LET polja == [c \in Range(Shema(t)) |->
                          IF c \in Range(cols)
                          THEN LET x == CHOOSE y \in 1..Len(cols) : cols[y] = c
                               IN  Get(vezava, ParamName(stmt.vrednosti[x]))
                          ELSE None]
              rows == db[t].vrstice
              id == IF AutoKljuc(t) # {}
                    THEN Max(db[t].seq, MaxRowid(rows)) + 1
                    ELSE MaxRowid(rows) + 1
          IN  IF \E c \in NotNull(t) : polja[c] = None
              THEN fail("IntegrityError")
              ELSE IF \E c \in TextKljuc(t) : /\ polja[c] # None
                                             /\ \E x \in 1..Len(rows) :
                                                   rows[x].polja[c] = polja[c]
              THEN fail("IntegrityError")
              ELSE [baza |-> [db EXCEPT
                                ![t].vrstice = Append(rows, [rowid |-> id, polja |-> polja]),
                                ![t].seq = IF AutoKljuc(t) # {} THEN id ELSE 0],
                    napaka |-> BrezNapake,
                    rowid |-> id]

----------------------------------------------------------------------------
(* Tabela                                                                  *)

\* PARAM_FMT = ":{}"
PARAM_FMT(s) == <<":", s>>

\* Faulty variant: the placeholders are generated in reverse order.
dodajanje_obrnjeno(ime, cols) ==
    [tabela |-> ime,
     stolpci |-> cols,
     vrednosti |-> [x \in 1..Len(cols) |-> PARAM_FMT(cols[Len(cols) + 1 - x])]]

\* Tabela.dodajanje: the INSERT statement for the given columns.
dodajanje(ime, cols) ==
    [tabela |-> ime,
     stolpci |-> cols,
     vrednosti |-> [x \in 1..Len(cols) |-> PARAM_FMT(cols[x])]]

\* dodaj_vrstico, line 79-80: the entries whose value is not None.
BrezNone(d) == SelectSeq(d, LAMBDA e : e[2] # None)

\* Faulty variant: the statement is built and never executed.
dodaj_vrstico_brez_izvedbe(db, ime, vrstica) ==
    LET p == BrezNone(vrstica)
        q == dodajanje(ime, Keys(p))
    IN  [baza |-> db, napaka |-> BrezNapake, rowid |-> 0,
         podatki |-> p, poizvedba |-> q]

\* Tabela.dodaj_vrstico(**vrstica)
dodaj_vrstico(db, ime, vrstica) ==
    LET p == BrezNone(vrstica)
        q == dodajanje(ime, Keys(p))
        r == Insert(db, q, p)
    IN  [baza |-> r.baza, napaka |-> r.napaka, rowid |-> r.rowid,
         podatki |-> p, poizvedba |-> q]

\* Faulty variant: the empty text is kept as a value.
Vrstica_s_praznimi(glava, zapis) ==
    [x \in 1..Min(Len(glava), Len(zapis)) |-> <<glava[x], Some(zapis[x])>>]

\* uvozi, line 51: the record as a mapping, "" replaced by None.
Vrstica(glava, zapis) == DictOfPairs(glava, zapis, Min(Len(glava), Len(zapis)))

\* Faulty variant: DROP TABLE without IF EXISTS.
izbrisi_brez_if_exists(db, ime) ==
    IF db[ime].obstaja
    THEN DropTableIfExists(db, ime)
    ELSE [baza |-> db, napaka |-> "OperationalError"]

\* Tabela.izbrisi
izbrisi(db, ime) == DropTableIfExists(db, ime)

\* Faulty variant: the create fails unless every referenced table exists.
ustvari_s_cilji(db, ime) ==
    IF \E r \in Reference(ime) : r \notin Imena \/ ~db[r].obstaja
    THEN [baza |-> db, napaka |-> "OperationalError"]
    ELSE CreateTable(db, ime)

\* <Subclass>.ustvari
ustvari(db, ime) == CreateTable(db, ime)

\* Tabela.izprazni
izprazni(db, ime) == DeleteFrom(db, ime)

----------------------------------------------------------------------------
(* Source files                                                            *)

\* Non-empty field texts.
Besedila == {"1", "2"}

\* The header of a table's source file: the columns the engine does not
\* assign itself, in DDL order.
Glava(t) == SelectSeq(Shema(t), LAMBDA c : c \notin AutoKljuc(t))

\* The records a source with header h may hold: every field the same text,
\* with at most one field left empty; every field empty; a blank line (which
\* csv.reader yields as a record of no fields).
Zapisi(h) ==
    {[x \in 1..Len(h) |-> IF x = e THEN "" ELSE v] :
        e \in 0..Len(h), v \in Besedila}
    \cup {[x \in 1..Len(h) |-> ""], <<>>}

SkupajVrstic(db) ==
    LET n(t) == Len(db[t].vrstice)
    IN  n("stranka") + n("oblacilo") + n("zaloga") + n("kosarica") + n("narocilo")

\* A table left by an earlier run: one imported row.
Stara(t) ==
    dodaj_vrstico([u \in Imena |-> Prazna], t,
                  Vrstica(Glava(t), [x \in 1..Len(Glava(t)) |-> "2"])).baza[t]

\* The store before the script starts: each table absent, empty, or holding
\* a row of an earlier run.
PrejsnjeBaze ==
    {[t \in Imena |-> CASE k[t] = 0 -> Ni [] k[t] = 1 -> Prazna [] OTHER -> Stara(t)] :
        k \in [Imena -> 0..2]}

----------------------------------------------------------------------------
(* The script, lines 255-265                                               *)

\* The table object at position x of the list.
tabele(x) == pripravi_tabele[x]

StTabel == Len(pripravi_tabele)

\* A statement that is not INSERT or DELETE runs in autocommit unless a
\* transaction is open.
PoDDL(db) == IF v_transakciji THEN disk ELSE db

\* INSERT and DELETE open a transaction before they run, once the statement
\* has compiled (a statement that does not compile raises OperationalError).
PoDML(e) == v_transakciji \/ e # "OperationalError"

\* Faulty variant: the block commits whatever happened.
with_conn_vedno_commit(db, committed, e) == db

\* Faulty variant: the work of the block is never committed.
with_conn_brez_commit(db, committed, e) == committed

\* "with conn:" on exit: commit when no exception leaves the block, rollback
\* otherwise. The result is the store the connection sees afterwards.
with_conn_exit(db, committed, e) == IF e = BrezNapake THEN db ELSE committed

\* Faulty variant: the exception is swallowed and the loop goes on.
PoVrstici_ujeto(e) == "vrstica"

\* Where the import loop goes after dodaj_vrstico: an exception is not caught
\* and leaves uvozi, uvozi_podatke and ustvari_bazo.
PoVrstici(e) == IF e = BrezNapake THEN "vrstica" ELSE "izhod"

Init ==
    /\ conn = "none"
    /\ pc = "connect"
    /\ baza \in PrejsnjeBaze
    /\ disk = baza
    /\ v_transakciji = FALSE
    /\ i = 1
    /\ stolpci = <<>>
    /\ prebrano = [t \in Imena |-> <<>>]
    /\ podatki = <<>>
    /\ poizvedba = dodajanje("", <<>>)
    /\ napaka = BrezNapake
    /\ dnevnik = <<>>
    /\ vstavljeno = [t \in Imena |-> 0]
    /\ korak = 0
    /\ prej = SkupajVrstic(baza)

\* line 256: conn = sqlite3.connect(BAZA)
Connect ==
    /\ pc = "connect"
    /\ conn' = "open"
    /\ pc' = "select"
    /\ UNCHANGED <<baza, disk, v_transakciji, i, stolpci, prebrano, podatki,
                   poizvedba, napaka, dnevnik, vstavljeno, korak, prej>>

\* lines 250-251: enter "with conn:", SELECT COUNT(*) FROM sqlite_master; the
\* result is not looked at (line 252 is a comment), ustvari_bazo always runs.
PreveriBazo ==
    /\ pc = "select"
    /\ pc' = "izbrisi"
    /\ i' = 1
    /\ UNCHANGED <<conn, baza, disk, v_transakciji, stolpci, prebrano, podatki,
                   poizvedba, napaka, dnevnik, vstavljeno, korak, prej>>

\* izbrisi_tabele: one t.izbrisi() of the loop.
IzbrisiTabelo ==
    /\ pc = "izbrisi"
    /\ LET r == izbrisi(baza, tabele(i))
       IN  /\ baza' = r.baza
           /\ disk' = PoDDL(r.baza)
    /\ dnevnik' = Append(dnevnik, <<"izbrisi", tabele(i)>>)
    /\ IF i < StTabel
       THEN /\ i' = i + 1
            /\ pc' = pc
       ELSE /\ i' = 1
            /\ pc' = "ustvari"
    /\ UNCHANGED <<conn, v_transakciji, stolpci, prebrano, podatki, poizvedba,
                   napaka, vstavljeno, korak, prej>>

\* ustvari_tabele: one t.ustvari() of the loop.
UstvariTabelo ==
    /\ pc = "ustvari"
    /\ LET r == ustvari(baza, tabele(i))
       IN  /\ baza' = r.baza
           /\ disk' = PoDDL(r.baza)
           /\ napaka' = r.napaka
           /\ IF r.napaka # BrezNapake
              THEN /\ pc' = "izhod"
                   /\ i' = i
              ELSE IF i < StTabel
              THEN /\ i' = i + 1
                   /\ pc' = pc
              ELSE /\ i' = 1
                   /\ pc' = "uvozi"
    /\ dnevnik' = Append(dnevnik, <<"ustvari", tabele(i)>>)
    /\ UNCHANGED <<conn, v_transakciji, stolpci, prebrano, podatki, poizvedba,
                   vstavljeno, korak, prej>>

\* uvozi_podatke, lines 212-213, and uvozi, lines 45-49: the source is opened
\* and its header read; a missing source raises.
UvoziOdpri ==
    /\ pc = "uvozi"
    /\ dnevnik' = Append(dnevnik, <<"uvozi", tabele(i)>>)
    /\ \/ /\ stolpci' = Glava(tabele(i))
          /\ pc' = "vrstica"
          /\ UNCHANGED napaka
       \/ /\ napaka' = "FileNotFoundError"
          /\ pc' = "izhod"
          /\ UNCHANGED stolpci
    /\ UNCHANGED <<conn, baza, disk, v_transakciji, i, prebrano, podatki,
                   poizvedba, vstavljeno, korak, prej>>

\* uvozi, lines 50-52: the next record of the source is decoded and inserted.
UvoziVrstico ==
    /\ pc = "vrstica"
    /\ SkupajVrstic(baza) < MaxVrstic
    /\ baza[tabele(i)].seq < MaxVrstic
    /\ \E zapis \in Zapisi(stolpci) :
         LET t == tabele(i)
             r == dodaj_vrstico(baza, t, Vrstica(stolpci, zapis))
         IN  /\ prebrano' = [prebrano EXCEPT ![t] = Append(@, zapis)]
             /\ baza' = r.baza
             /\ v_transakciji' = PoDML(r.napaka)
             /\ podatki' = r.podatki
             /\ poizvedba' = r.poizvedba
             /\ napaka' = r.napaka
             /\ vstavljeno' = [vstavljeno EXCEPT
                                 ![t] = IF r.napaka = BrezNapake THEN @ + 1 ELSE @]
             /\ pc' = PoVrstici(r.napaka)
    /\ UNCHANGED <<conn, disk, i, stolpci, dnevnik, korak, prej>>

\* uvozi: the source is exhausted; uvozi_podatke goes on to the next table.
UvoziKonec ==
    /\ pc = "vrstica"
    /\ stolpci' = <<>>
    /\ IF i < StTabel
       THEN /\ i' = i + 1
            /\ pc' = "uvozi"
       ELSE /\ i' = 1
            /\ pc' = "izhod"
    /\ UNCHANGED <<conn, baza, disk, v_transakciji, prebrano, podatki,
                   poizvedba, napaka, dnevnik, vstavljeno, korak, prej>>

\* line 250: the "with conn:" block is left; with an exception the script
\* ends there (nothing catches it), line 265 is not reached.
IzhodIzWith ==
    /\ pc = "izhod"
    /\ baza' = with_conn_exit(baza, disk, napaka)
    /\ disk' = baza'
    /\ v_transakciji' = FALSE
    /\ pc' = IF napaka = BrezNapake THEN "beri" ELSE "sesuto"
    /\ i' = 1
    /\ UNCHANGED <<conn, stolpci, prebrano, podatki, poizvedba, napaka,
                   dnevnik, vstavljeno, korak, prej>>

\* lines 258-262: SELECT * FROM <table>, one per table.
Beri ==
    /\ pc = "beri"
    /\ IF baza[tabele(i)].obstaja
       THEN /\ UNCHANGED napaka
            /\ IF i < StTabel
               THEN /\ i' = i + 1
                    /\ pc' = pc
               ELSE /\ i' = 1
                    /\ pc' = "zapri"
       ELSE /\ napaka' = "OperationalError"
            /\ pc' = "sesuto"
            /\ i' = i
    /\ dnevnik' = Append(dnevnik, <<"beri", tabele(i)>>)
    /\ UNCHANGED <<conn, baza, disk, v_transakciji, stolpci, prebrano, podatki,
                   poizvedba, vstavljeno, korak, prej>>

\* line 265: conn.close()
Zapri ==
    /\ pc = "zapri"
    /\ conn' = "closed"
    /\ pc' = "konec"
    /\ UNCHANGED <<baza, disk, v_transakciji, i, stolpci, prebrano, podatki,
                   poizvedba, napaka, dnevnik, vstavljeno, korak, prej>>

Next ==
    \/ Connect
    \/ PreveriBazo
    \/ IzbrisiTabelo
    \/ UstvariTabelo
    \/ UvoziOdpri
    \/ UvoziVrstico
    \/ UvoziKonec
    \/ IzhodIzWith
    \/ Beri
    \/ Zapri

Spec == Init /\ [][Next]_vars

----------------------------------------------------------------------------
(* A caller of one Tabela object: tabele(i), i fixed                       *)

InitTabela ==
    /\ conn = "open"
    /\ pc = "klic"
    /\ baza \in {[t \in Imena |-> Ni], [t \in Imena |-> Prazna]}
    /\ disk = baza
    /\ v_transakciji = FALSE
    /\ i \in 1..StTabel
    /\ stolpci = <<>>
    /\ prebrano = [t \in Imena |-> <<>>]
    /\ podatki = <<>>
    /\ poizvedba = dodajanje("", <<>>)
    /\ napaka = BrezNapake
    /\ dnevnik = <<>>
    /\ vstavljeno = [t \in Imena |-> 0]
    /\ korak = 0
    /\ prej = 0

\* A new call: the locals and counts of the previous call are gone.
NovKlic ==
    /\ prebrano' = [t \in Imena |-> <<>>]
    /\ vstavljeno' = [t \in Imena |-> 0]
    /\ podatki' = <<>>
    /\ poizvedba' = dodajanje("", <<>>)
    /\ stolpci' = <<>>
    /\ korak' = 0

\* Rows of the table, -1 when it does not exist.
Stanje(db, t) == IF db[t].obstaja THEN Len(db[t].vrstice) ELSE -1

\* t.izbrisi()
TIzbrisi ==
    /\ pc = "klic"
    /\ LET t == tabele(i)
           r == izbrisi(baza, t)
       IN  /\ baza' = r.baza
           /\ disk' = PoDDL(r.baza)
           /\ napaka' = r.napaka
           /\ prej' = Stanje(baza, t)
           /\ dnevnik' = <<<<"izbrisi", t>>>>
    /\ NovKlic
    /\ UNCHANGED <<conn, pc, v_transakciji, i>>

\* t.ustvari(); the caller sees the exception, if any, and goes on.
TUstvari ==
    /\ pc = "klic"
    /\ LET t == tabele(i)
           r == ustvari(baza, t)
       IN  /\ baza' = r.baza
           /\ disk' = PoDDL(r.baza)
           /\ napaka' = r.napaka
           /\ prej' = Stanje(baza, t)
           /\ dnevnik' = <<<<"ustvari", t>>>>
    /\ NovKlic
    /\ UNCHANGED <<conn, pc, v_transakciji, i>>

\* t.izprazni()
TIzprazni ==
    /\ pc = "klic"
    /\ LET t == tabele(i)
           r == izprazni(baza, t)
       IN  /\ baza' = r.baza
           /\ v_transakciji' = PoDML(r.napaka)
           /\ napaka' = r.napaka
           /\ prej' = Stanje(baza, t)
           /\ dnevnik' = <<<<"izprazni", t>>>>
    /\ NovKlic
    /\ UNCHANGED <<conn, pc, disk, i>>

\* t.uvozi(), lines 45-49.
TUvoziOdpri ==
    /\ pc = "klic"
    /\ LET t == tabele(i)
       IN  /\ prej' = Stanje(baza, t)
           /\ prebrano' = [u \in Imena |-> <<>>]
           /\ vstavljeno' = [u \in Imena |-> 0]
           /\ podatki' = <<>>
           /\ poizvedba' = dodajanje("", <<>>)
           /\ dnevnik' = <<<<"uvozi", t>>>>
           /\ \/ /\ stolpci' = Glava(t)
                 /\ pc' = "t_vrstica"
                 /\ napaka' = BrezNapake
              \/ /\ napaka' = "FileNotFoundError"
                 /\ UNCHANGED <<stolpci, pc>>
    /\ korak' = 0
    /\ UNCHANGED <<conn, baza, disk, v_transakciji, i>>

\* t.uvozi(), lines 50-52: one record; an exception leaves uvozi.
TUvoziVrstico ==
    /\ pc = "t_vrstica"
    /\ SkupajVrstic(baza) < MaxVrstic
    /\ baza[tabele(i)].seq < MaxVrstic
    /\ \E zapis \in Zapisi(stolpci) :
         LET t == tabele(i)
             r == dodaj_vrstico(baza, t, Vrstica(stolpci, zapis))
         IN  /\ prebrano' = [prebrano EXCEPT ![t] = Append(@, zapis)]
             /\ baza' = r.baza
             /\ v_transakciji' = PoDML(r.napaka)
             /\ podatki' = r.podatki
             /\ poizvedba' = r.poizvedba
             /\ napaka' = r.napaka
             /\ vstavljeno' = [vstavljeno EXCEPT
                                 ![t] = IF r.napaka = BrezNapake THEN @ + 1 ELSE @]
             /\ pc' = IF PoVrstici(r.napaka) = "vrstica" THEN "t_vrstica" ELSE "klic"
             /\ stolpci' = IF PoVrstici(r.napaka) = "vrstica" THEN stolpci ELSE <<>>
    /\ UNCHANGED <<conn, disk, i, dnevnik, korak, prej>>

\* t.uvozi() returns: the source is exhausted.
TUvoziKonec ==
    /\ pc = "t_vrstica"
    /\ pc' = "klic"
    /\ stolpci' = <<>>
    /\ dnevnik' = <<<<"uvozi", tabele(i)>>, <<"konec", tabele(i)>>>>
    /\ UNCHANGED <<conn, baza, disk, v_transakciji, i, prebrano, podatki,
                   poizvedba, napaka, vstavljeno, korak, prej>>

\* The caller starts t.izbrisi(); t.ustvari(); t.izbrisi(); t.ustvari():
\* the first call.
TPonastaviZacni ==
    /\ pc = "klic"
    /\ LET t == tabele(i)
           r == izbrisi(baza, t)
       IN  /\ baza' = r.baza
           /\ disk' = PoDDL(r.baza)
           /\ napaka' = r.napaka
           /\ prej' = Stanje(baza, t)
           /\ dnevnik' = <<<<"izbrisi", t>>>>
    /\ korak' = 1
    /\ pc' = "ponastavi"
    /\ prebrano' = [t \in Imena |-> <<>>]
    /\ vstavljeno' = [t \in Imena |-> 0]
    /\ podatki' = <<>>
    /\ poizvedba' = dodajanje("", <<>>)
    /\ UNCHANGED <<conn, v_transakciji, i, stolpci>>

\* The second to fourth call of the sequence; an exception ends it.
TPonastaviKorak ==
    /\ pc = "ponastavi"
    /\ LET t == tabele(i)
           r == IF korak \in {1, 3} THEN ustvari(baza, t) ELSE izbrisi(baza, t)
       IN  /\ baza' = r.baza
           /\ disk' = PoDDL(r.baza)
           /\ napaka' = r.napaka
           /\ dnevnik' = Append(dnevnik,
                                <<IF korak \in {1, 3} THEN "ustvari" ELSE "izbrisi", t>>)
           /\ korak' = korak + 1
           /\ pc' = IF r.napaka # BrezNapake \/ korak = 3 THEN "klic" ELSE pc
    /\ UNCHANGED <<conn, v_transakciji, i, stolpci, prebrano, podatki,
                   poizvedba, vstavljeno, prej>>

NextTabela ==
    \/ TIzbrisi
    \/ TUstvari
    \/ TIzprazni
    \/ TUvoziOdpri
    \/ TUvoziVrstico
    \/ TUvoziKonec
    \/ TPonastaviZacni
    \/ TPonastaviKorak

SpecTabela == InitTabela /\ [][NextTabela]_vars

----------------------------------------------------------------------------
(* Properties of a Tabela object (SpecTabela)                              *)

T == tabele(i)

Vrstice(db, t) == db[t].vrstice

\* The stored row holds, for every column of the header, the text of the
\* record's field, and NULL where the field is empty or missing.
Ustreza(row, zapis, t) ==
    \A c \in Range(Shema(t)) :
        LET h == Glava(t)
            X == {x \in 1..Min(Len(h), Len(zapis)) : h[x] = c /\ zapis[x] # ""}
        IN  IF X = {}
            THEN row.polja[c] = None
            ELSE \E x \in X : row.polja[c] = Some(zapis[x])

\* The last record read by the running or finished uvozi.
Zadnji == prebrano[T][Len(prebrano[T])]

UvozKoncan ==
    /\ pc = "klic"
    /\ dnevnik # <<>>
    /\ dnevnik[1] = <<"uvozi", T>>
    /\ prej >= 0
    /\ napaka # "FileNotFoundError"

\* C2 as stated: when no record causes an integrity violation, the import
\* adds one row per record read.
C2_Izvirna ==
    (UvozKoncan /\ napaka # "IntegrityError") =>
        Len(Vrstice(baza, T)) = prej + Len(prebrano[T])

\* C2 amended: when every record has at least one non-empty field and none
\* causes an integrity violation, the import raises nothing and adds exactly
\* one row per record, in source order.
C2_EnaVrsticaNaZapis ==
    (/\ UvozKoncan
     /\ napaka # "IntegrityError"
     /\ \A k \in 1..Len(prebrano[T]) :
            \E x \in 1..Len(prebrano[T][k]) : prebrano[T][k][x] # "")
    => /\ napaka = BrezNapake
       /\ Len(Vrstice(baza, T)) = prej + Len(prebrano[T])
       /\ \A k \in 1..Len(prebrano[T]) :
              Ustreza(Vrstice(baza, T)[prej + k], prebrano[T][k], T)

\* C2 witness: an import of two records has returned.
C2_Prica ==
    /\ UvozKoncan
    /\ napaka = BrezNapake
    /\ Len(prebrano[T]) = 2
    /\ prebrano[T][1] # prebrano[T][2]

\* C3: in the sequence izbrisi, ustvari, izbrisi, ustvari no call raises,
\* whatever the table's state before, and after it the table exists and has
\* no rows.
C3_Ponastavitev ==
    /\ korak >= 1 => napaka = BrezNapake
    /\ korak = 4 => /\ baza[T].obstaja
                    /\ Vrstice(baza, T) = <<>>

\* C3 witness: the sequence has run on a table that held rows.
C3_Prica == korak = 4 /\ prej >= 1 /\ pc = "klic"

\* The last call was Zaloga.ustvari while the table oblacilo did not exist.
ZalogaBrezOblacil ==
    /\ dnevnik = <<<<"ustvari", "zaloga">>>>
    /\ ~baza["oblacilo"].obstaja

\* C5 as stated: creating zaloga while oblacilo does not exist raises.
C5_Izvirna == ZalogaBrezOblacil => napaka # BrezNapake

\* C5 amended: creating zaloga while oblacilo does not exist raises exactly
\* when zaloga itself already exists; otherwise it succeeds and zaloga exists
\* and is empty afterwards.
C5_UstvariBrezCilja ==
    ZalogaBrezOblacil =>
        /\ (napaka # BrezNapake) <=> (prej >= 0)
        /\ prej = -1 => baza["zaloga"] = Prazna

\* C5 witness: zaloga was created while oblacilo did not exist.
C5_Prica ==
    /\ ZalogaBrezOblacil
    /\ napaka = BrezNapake
    /\ baza["zaloga"].obstaja

\* C9: for a non-empty set of present fields the statement names exactly
\* those fields, in their order, as its columns, has as many placeholders as
\* columns, and the placeholder at each position is the parameter named by
\* the column at that position.
C9_StolpciInParametri ==
    podatki # <<>> =>
        /\ poizvedba.stolpci = Keys(podatki)
        /\ Len(poizvedba.vrednosti) = Len(poizvedba.stolpci)
        /\ \A x \in 1..Len(poizvedba.stolpci) :
               /\ poizvedba.vrednosti[x] = <<":", poizvedba.stolpci[x]>>
               /\ \A y \in 1..Len(poizvedba.stolpci) :
                      x # y => poizvedba.stolpci[x] # poizvedba.stolpci[y]

\* C9 witness: a statement over several present fields, with one field of
\* the record left out, was built and executed.
C9_Prica ==
    /\ Len(poizvedba.stolpci) >= 2
    /\ Len(poizvedba.stolpci) < Len(Glava(T))
    /\ napaka = BrezNapake
    /\ vstavljeno[T] >= 1

----------------------------------------------------------------------------
(* Properties of the script (Spec)                                         *)

Konec == pc \in {"konec", "sesuto"}

\* C4: when the script has ended, normally or with an exception, the
\* connection has been closed.
C4_PovezavaZaprta == Konec => conn = "closed"

\* C6 as stated: after a failed bootstrap every table created before the
\* failure exists and holds the rows inserted before the failure.
C6_Izvirna ==
    pc = "sesuto" =>
        \A t \in Imena : /\ disk[t].obstaja
                         /\ Len(Vrstice(disk, t)) = vstavljeno[t]

\* C6 amended: after a failed bootstrap the drops and creates stay (every
\* table exists, none holds a row from before the run), and the rows
\* inserted before the failure are rolled back: every table is empty, in the
\* committed store and in the connection's view.
C6_VrsticeRazveljavljene ==
    pc = "sesuto" =>
        /\ baza = disk
        /\ ~v_transakciji
        /\ \A t \in Imena : disk[t] = Prazna

\* C6 witness: the bootstrap failed after rows had been inserted, on a store
\* that held rows before.
C6_Prica ==
    /\ pc = "sesuto"
    /\ prej > 0
    /\ \E t \in Imena : vstavljeno[t] > 0

IsPrefix(s, w) == Len(s) <= Len(w) /\ \A x \in 1..Len(s) : s[x] = w[x]

\* The one order of operations of a run.
Zaporedje ==
    <<<<"izbrisi", "stranka">>, <<"izbrisi", "oblacilo">>, <<"izbrisi", "zaloga">>,
      <<"izbrisi", "kosarica">>, <<"izbrisi", "narocilo">>,
      <<"ustvari", "stranka">>, <<"ustvari", "oblacilo">>, <<"ustvari", "zaloga">>,
      <<"ustvari", "kosarica">>, <<"ustvari", "narocilo">>,
      <<"uvozi", "stranka">>, <<"uvozi", "oblacilo">>, <<"uvozi", "zaloga">>,
      <<"uvozi", "kosarica">>, <<"uvozi", "narocilo">>,
      <<"beri", "stranka">>, <<"beri", "oblacilo">>, <<"beri", "zaloga">>,
      <<"beri", "kosarica">>, <<"beri", "narocilo">>>>

\* C7: the operations issued so far are a prefix of: drop of the five
\* tables, create of the five tables, import of the five tables, each in the
\* order stranka, oblacilo, zaloga, kosarica, narocilo, then the reads; so
\* each happens at most once and a read only after the "with" block of the
\* bootstrap has been left without an exception.
C7_VrstniRed ==
    /\ IsPrefix(dnevnik, Zaporedje)
    /\ Len(dnevnik) > 15 => /\ pc \in {"beri", "zapri", "konec"}
                            /\ napaka = BrezNapake
                            /\ ~v_transakciji

\* C7 witness: a run that issued all twenty operations and ended.
C7_Prica == pc = "konec" /\ Len(dnevnik) = 20

\* C8: once dodaj_vrstico has raised an integrity violation, no record is
\* read or inserted, no operation (import of a later table, read) is issued,
\* and the exception stays.
C8_NapakaUstavi ==
    [][napaka = "IntegrityError" =>
          /\ prebrano' = prebrano
          /\ vstavljeno' = vstavljeno
          /\ dnevnik' = dnevnik
          /\ napaka' = napaka
          /\ pc' \in {"izhod", "sesuto"}]_vars

\* C8 witness: the run ended with an integrity violation in the import of
\* the second table, after one row of it had been inserted.
C8_Prica ==
    /\ pc = "sesuto"
    /\ napaka = "IntegrityError"
    /\ Len(dnevnik) = 12
    /\ vstavljeno["oblacilo"] = 1

\* The rows an import of the records zs leaves in the freshly created table t.
Pricakovane(t, zs) ==
    [k \in 1..Len(zs) |->
        [rowid |-> k,
         polja |-> [c \in Range(Shema(t)) |->
                      LET h == Glava(t)
                          X == {x \in 1..Min(Len(h), Len(zs[k])) :
                                   h[x] = c /\ zs[k][x] # ""}
                      IN  IF X = {} THEN None
                          ELSE Some(zs[k][CHOOSE x \in X : TRUE])]]]

====
